---- MODULE Spec2Model ----
(***************************************************************************)
(* Model of src/src/main.rs: the Notifier adapter, the scene builder       *)
(* (render) and the driver loop of main (initial transaction, the          *)
(* run_return callback, renderer teardown).                                *)
(*                                                                         *)
(* Layout coordinates are f32 values that are multiples of 1/4 for every   *)
(* device size modelled; a coordinate x is represented by the integer 4*x  *)
(* (quarter pixels), so 0.25*w is w, 0.5*w is 2*w, 0.75*w is 3*w and w is  *)
(* 4*w.                                                                    *)
(***************************************************************************)
EXTENDS Integers, Sequences, FiniteSets, TLC

VARIABLES target_os, device_size, inner_size, phase, control_flow, window,
          queue, docs, calls, global_event, frame_ops, abort_cause,
          render_size

vars == <<target_os, device_size, inner_size, phase, control_flow, window,
          queue, docs, calls, global_event, frame_ops, abort_cause,
          render_size>>

(* Bounds of the model. *)
MaxCallbacks == 3
MaxQueue == 2
MaxWakes == 2

(* Window inner sizes the platform may report (width, height). *)
SizeSet == {<<0, 0>>, <<3, 5>>, <<800, 600>>}

(* Build targets: the cfg attribute of wake_up distinguishes android. *)
Targets == {"android", "linux"}

(* ---------------------------------------------------------------------- *)
(* Scene builder                                                          *)
(* ---------------------------------------------------------------------- *)

pipeline_id == <<0, 0>>

epoch == 0

(* DeviceIntSize::new(size.width as i32, size.height as i32); the sizes   *)
(* modelled are below 2^31, where the cast keeps the value.               *)
DeviceIntSize(size) == <<size[1], size[2]>>

(* f32 product of an integer and a multiple q/4, in quarter pixels. *)
Scaled(x, q) == x * q

LayoutRect(min, max) == [min |-> min, max |-> max]

root_scroll(pipeline) == [pipeline |-> pipeline, node |-> "root_scroll"]

push_rect(builder, bounds, color) ==
    [builder EXCEPT !.items =
        Append(@, [clip |-> bounds, bounds |-> bounds, color |-> color,
                   space_and_clip |-> root_scroll(builder.pipeline_id)])]

DisplayListBuilder(pipeline) == [pipeline_id |-> pipeline, items |-> <<>>]

render_shifted(builder, size) ==
    LET width  == size[1]
        height == size[2]
        b1 == push_rect(builder,
                  LayoutRect(<<0, 0>>, <<Scaled(width, 2), Scaled(height, 2)>>),
                  <<1, 0, 0, 1>>)
        b2 == push_rect(b1,
                  LayoutRect(<<Scaled(width, 1), Scaled(height, 1)>>,
                             <<Scaled(width, 3), Scaled(height, 3)>>),
                  <<0, 1, 0, 1>>)
        b3 == push_rect(b2,
                  LayoutRect(<<Scaled(width, 2), Scaled(height, 2)>>,
                             <<Scaled(width, 4), Scaled(width, 4)>>),
                  <<0, 0, 1, 1>>)
    IN  b3

render(builder, size) ==
    LET width  == size[1]
        height == size[2]
        b1 == push_rect(builder,
                  LayoutRect(<<0, 0>>, <<Scaled(width, 2), Scaled(height, 2)>>),
                  <<1, 0, 0, 1>>)
        b2 == push_rect(b1,
                  LayoutRect(<<Scaled(width, 1), Scaled(height, 1)>>,
                             <<Scaled(width, 3), Scaled(height, 3)>>),
                  <<0, 1, 0, 1>>)
        b3 == push_rect(b2,
                  LayoutRect(<<Scaled(width, 2), Scaled(height, 2)>>,
                             <<Scaled(width, 4), Scaled(height, 4)>>),
                  <<0, 0, 1, 1>>)
    IN  b3

(* ---------------------------------------------------------------------- *)
(* Transactions and the document                                          *)
(* ---------------------------------------------------------------------- *)

(* Transaction::new(): a batch with no command. *)
Transaction == <<>>

set_display_list(txn, ep, list) ==
    Append(txn, [op |-> "set_display_list", epoch |-> ep, list |-> list,
                 pipeline |-> <<>>])

set_root_pipeline(txn, pipeline) ==
    Append(txn, [op |-> "set_root_pipeline", epoch |-> 0, list |-> <<>>,
                 pipeline |-> pipeline])

generate_frame(txn) ==
    Append(txn, [op |-> "generate_frame", epoch |-> 0, list |-> <<>>,
                 pipeline |-> <<>>])

(* The transaction main builds and sends before the loop. *)
InitialTransaction(size) ==
    LET builder == render(DisplayListBuilder(pipeline_id), size)
        t1 == set_display_list(Transaction, epoch, builder.items)
        t2 == set_root_pipeline(t1, pipeline_id)
        t3 == generate_frame(t2)
    IN  t3

LoopTransaction_rebuild(size) == InitialTransaction(size)

(* The transaction the callback builds on every invocation. *)
LoopTransaction(size) == Transaction

NewDocument(size) ==
    [size |-> size, display_list |-> <<>>, epochs |-> {}, pipelines |-> {},
     n_display_lists |-> 0, n_root_pipelines |-> 0, n_generate_frames |-> 0,
     n_txns |-> 0, n_empty_txns |-> 0]

(* api.add_document: the new document's id is its index. *)
add_document(ds, size) == Append(ds, NewDocument(size))

ApplyCommand(doc, c) ==
    CASE c.op = "set_display_list" ->
            [doc EXCEPT !.display_list = c.list,
                        !.epochs = @ \cup {c.epoch},
                        !.n_display_lists = @ + 1]
      [] c.op = "set_root_pipeline" ->
            [doc EXCEPT !.pipelines = @ \cup {c.pipeline},
                        !.n_root_pipelines = @ + 1]
      [] c.op = "generate_frame" ->
            [doc EXCEPT !.n_generate_frames = @ + 1]

RECURSIVE ApplyCommands(_, _)
ApplyCommands(doc, txn) ==
    IF txn = <<>> THEN doc
    ELSE ApplyCommands(ApplyCommand(doc, Head(txn)), Tail(txn))

send_transaction(ds, id, txn) ==
    [ds EXCEPT ![id] =
        LET d == ApplyCommands(@, txn)
        IN  [d EXCEPT !.n_txns = @ + 1,
                      !.n_empty_txns = IF txn = <<>> THEN @ + 1 ELSE @]]

document_id == 1

(* ---------------------------------------------------------------------- *)
(* Notifier                                                               *)
(* ---------------------------------------------------------------------- *)

(* events_proxy.send_event(()): queues one user event while the event    *)
(* loop exists, fails with EventLoopClosed once it has been dropped.      *)
send_event(alive, q) ==
    IF alive THEN [ok |-> TRUE, queue |-> q + 1]
             ELSE [ok |-> FALSE, queue |-> q]

wake_up_unwrap(os, composite_needed, alive, q) ==
    IF os = "android" THEN [queue |-> q, panicked |-> FALSE]
    ELSE LET r == send_event(alive, q)
         IN  [queue |-> r.queue, panicked |-> ~r.ok]

(* The send is compiled out on android; its result is discarded. *)
wake_up(os, composite_needed, alive, q) ==
    IF os = "android" THEN [queue |-> q, panicked |-> FALSE]
    ELSE LET r == send_event(alive, q)
         IN  [queue |-> r.queue, panicked |-> FALSE]

new_frame_ready_if_composite(os, doc_id, scrolled, composite_needed, alive, q) ==
    IF composite_needed THEN wake_up(os, composite_needed, alive, q)
    ELSE [queue |-> q, panicked |-> FALSE]

new_frame_ready(os, doc_id, scrolled, composite_needed, alive, q) ==
    wake_up(os, composite_needed, alive, q)

(* ---------------------------------------------------------------------- *)
(* Driver loop                                                            *)
(* ---------------------------------------------------------------------- *)

Event(type, event, key, size) ==
    [type |-> type, event |-> event, virtual_keycode |-> key, size |-> size]

NoEvent == Event("None", "None", "None", <<0, 0>>)

KeyCodes == {"Escape", "A", "None"}

(* Events the platform delivers to the callback; a keyboard input's       *)
(* virtual_keycode is an Option, "None" when the key has no virtual code. *)
Events ==
    {Event("WindowEvent", "CloseRequested", "None", <<0, 0>>),
     Event("WindowEvent", "Focused", "None", <<0, 0>>),
     Event("Resumed", "None", "None", <<0, 0>>),
     Event("UserEvent", "None", "None", <<0, 0>>),
     Event("MainEventsCleared", "None", "None", <<0, 0>>),
     Event("LoopDestroyed", "None", "None", <<0, 0>>)}
    \cup {Event("WindowEvent", "KeyboardInput", k, <<0, 0>>) : k \in KeyCodes}
    \cup {Event("WindowEvent", "Resized", "None", s) : s \in SizeSet}

HandleEvent_no_close(e, cf, w) ==
    IF e.type = "WindowEvent" /\ e.event = "KeyboardInput"
       /\ e.virtual_keycode = "Escape"
    THEN [control_flow |-> "Exit", window |-> w, panicked |-> FALSE]
    ELSE [control_flow |-> cf, window |-> w, panicked |-> FALSE]

HandleEvent_show_on_focus(e, cf, w) ==
    IF e.type = "WindowEvent" /\ e.event = "CloseRequested"
    THEN [control_flow |-> "Exit", window |-> w, panicked |-> FALSE]
    ELSE IF e.type = "WindowEvent" /\ e.event = "KeyboardInput"
    THEN [control_flow |-> IF e.virtual_keycode = "Escape" THEN "Exit" ELSE cf,
          window |-> w, panicked |-> e.virtual_keycode = "None"]
    ELSE IF e.type = "Resumed" \/ (e.type = "WindowEvent" /\ e.event = "Focused")
    THEN [control_flow |-> cf,
          window |-> [visible |-> TRUE,
                      focus_requests |-> w.focus_requests + 1],
          panicked |-> FALSE]
    ELSE [control_flow |-> cf, window |-> w, panicked |-> FALSE]

(* The match of the callback: the control flow and window it leaves, and  *)
(* whether it panicked (unwrap of a missing virtual_keycode).             *)
HandleEvent(e, cf, w) ==
    IF e.type = "WindowEvent"
    THEN CASE e.event = "CloseRequested" ->
                [control_flow |-> "Exit", window |-> w, panicked |-> FALSE]
           [] e.event = "KeyboardInput" ->
                IF e.virtual_keycode = "None"
                THEN [control_flow |-> cf, window |-> w, panicked |-> TRUE]
                ELSE IF e.virtual_keycode = "Escape"
                THEN [control_flow |-> "Exit", window |-> w, panicked |-> FALSE]
                ELSE [control_flow |-> cf, window |-> w, panicked |-> FALSE]
           [] OTHER ->
                [control_flow |-> cf, window |-> w, panicked |-> FALSE]
    ELSE IF e.type = "Resumed"
    THEN [control_flow |-> cf,
          window |-> [visible |-> TRUE,
                      focus_requests |-> w.focus_requests + 1],
          panicked |-> FALSE]
    ELSE [control_flow |-> cf, window |-> w, panicked |-> FALSE]

AllFrameOps ==
    <<"send_transaction", "update", "render", "flush_pipeline_info",
      "swap_buffers">>

(* The tail of the callback: the calls it makes, in order, up to the      *)
(* first unwrap that fails.                                               *)
FrameWork(render_ok, swap_ok) ==
    IF ~render_ok
    THEN [ops |-> <<"send_transaction", "update", "render">>,
          cause |-> "render"]
    ELSE IF ~swap_ok
    THEN [ops |-> AllFrameOps, cause |-> "swap_buffers"]
    ELSE [ops |-> AllFrameOps, cause |-> "none"]

(* The size the callback passes to renderer.render. *)
RenderSize(ds, is) == ds

StickyExit_overwritten(old, new) == new

(* run_return keeps an exit once requested: a callback invoked after it   *)
(* writes to a control flow the loop discards.                            *)
StickyExit(old, new) == IF old = "Exit" THEN "Exit" ELSE new

Count(ops, name) == Cardinality({i \in DOMAIN ops : ops[i] = name})

NoCalls ==
    [callback |-> 0, send_transaction |-> 0, update |-> 0, render |-> 0,
     flush_pipeline_info |-> 0, swap_buffers |-> 0, deinit |-> 0,
     wake_up |-> 0, new_frame_ready |-> 0]

(* State of main when it reaches run_return: window built hidden, one    *)
(* document added, the initial transaction sent.                          *)
Init ==
    /\ target_os \in Targets
    /\ inner_size \in SizeSet
    /\ device_size = DeviceIntSize(inner_size)
    /\ phase = "Initialized"
    /\ control_flow = "Poll"
    /\ window = [visible |-> FALSE, focus_requests |-> 0]
    /\ queue = 0
    /\ docs = send_transaction(add_document(<<>>, device_size), document_id,
                               InitialTransaction(device_size))
    /\ calls = NoCalls
    /\ global_event = NoEvent
    /\ frame_ops = <<>>
    /\ abort_cause = "none"
    /\ render_size = <<>>

(* events_loop.run_return(...) is entered. *)
EnterLoop ==
    /\ phase = "Initialized"
    /\ phase' = "Running"
    /\ UNCHANGED <<target_os, device_size, inner_size, control_flow, window,
                   queue, docs, calls, global_event, frame_ops, abort_cause,
                   render_size>>

(* One invocation of the callback for event e; render_ok and swap_ok are  *)
(* the results of renderer.render and swap_buffers.                       *)
Callback(e, render_ok, swap_ok) ==
    /\ phase = "Running"
    /\ IF e.type = "LoopDestroyed"
       THEN control_flow = "Exit"
       ELSE calls.callback < MaxCallbacks
    /\ e.type = "UserEvent" => queue > 0
    /\ LET h == HandleEvent(e, "Wait", window)
           f == IF h.panicked
                THEN [ops |-> <<>>, cause |-> "unwrap_none"]
                ELSE FrameWork(render_ok, swap_ok)
           cf == StickyExit(control_flow, h.control_flow)
           is == IF e.event = "Resized" THEN e.size ELSE inner_size
       IN  /\ global_event' = e
           /\ inner_size' = is
           /\ queue' = IF e.type = "UserEvent" THEN queue - 1 ELSE queue
           /\ window' = h.window
           /\ control_flow' = cf
           /\ frame_ops' = f.ops
           /\ abort_cause' = f.cause
           /\ docs' = IF Count(f.ops, "send_transaction") > 0
                      THEN send_transaction(docs, document_id,
                                            LoopTransaction(device_size))
                      ELSE docs
           /\ render_size' = IF Count(f.ops, "render") > 0
                             THEN RenderSize(device_size, is)
                             ELSE render_size
           /\ calls' = [calls EXCEPT
                  !.callback = @ + 1,
                  !.send_transaction = @ + Count(f.ops, "send_transaction"),
                  !.update = @ + Count(f.ops, "update"),
                  !.render = @ + Count(f.ops, "render"),
                  !.flush_pipeline_info = @ + Count(f.ops, "flush_pipeline_info"),
                  !.swap_buffers = @ + Count(f.ops, "swap_buffers")]
           /\ phase' = IF f.cause # "none" THEN "Aborted"
                       ELSE IF e.type = "LoopDestroyed" THEN "Returned"
                       ELSE "Running"
    /\ UNCHANGED <<target_os, device_size>>

(* An ordinary event is dispatched to the callback. *)
Dispatch ==
    \E e \in Events, render_ok \in BOOLEAN, swap_ok \in BOOLEAN :
        /\ e.type # "LoopDestroyed"
        /\ Callback(e, render_ok, swap_ok)

(* The loop, having seen the exit request, delivers LoopDestroyed and     *)
(* returns to main.                                                       *)
ExitLoop ==
    \E render_ok \in BOOLEAN, swap_ok \in BOOLEAN :
        Callback(Event("LoopDestroyed", "None", "None", <<0, 0>>),
                 render_ok, swap_ok)

DeinitAllowed_early(p) == p \in {"Running", "Returned"}

(* renderer.deinit() follows run_return in main. *)
DeinitAllowed(p) == p = "Returned"

Deinit ==
    /\ DeinitAllowed(phase)
    /\ phase' = "TornDown"
    /\ calls' = [calls EXCEPT !.deinit = @ + 1]
    /\ UNCHANGED <<target_os, device_size, inner_size, control_flow, window,
                   queue, docs, global_event, frame_ops, abort_cause,
                   render_size>>

(* main returns: its locals, the event loop last, are dropped. *)
DropLocals ==
    /\ phase = "TornDown"
    /\ phase' = "Dropped"
    /\ UNCHANGED <<target_os, device_size, inner_size, control_flow, window,
                   queue, docs, calls, global_event, frame_ops, abort_cause,
                   render_size>>

LoopAlive == phase \in {"Initialized", "Running", "Returned", "TornDown"}

NotifierCallable == phase # "Aborted"

(* The renderer's thread calls Notifier::wake_up. *)
WakeUp ==
    \E composite_needed \in BOOLEAN :
        /\ NotifierCallable
        /\ calls.wake_up + calls.new_frame_ready < MaxWakes
        /\ queue < MaxQueue
        /\ LET r == wake_up(target_os, composite_needed, LoopAlive, queue)
           IN  /\ queue' = r.queue
               /\ phase' = IF r.panicked THEN "Aborted" ELSE phase
               /\ abort_cause' = IF r.panicked THEN "send_event"
                                 ELSE abort_cause
        /\ calls' = [calls EXCEPT !.wake_up = @ + 1]
        /\ UNCHANGED <<target_os, device_size, inner_size, control_flow,
                       window, docs, global_event, frame_ops, render_size>>

(* The renderer's thread calls Notifier::new_frame_ready. *)
NewFrameReady ==
    \E doc_id \in {1, 2}, scrolled \in BOOLEAN, composite_needed \in BOOLEAN :
        /\ NotifierCallable
        /\ calls.wake_up + calls.new_frame_ready < MaxWakes
        /\ queue < MaxQueue
        /\ LET r == new_frame_ready(target_os, doc_id, scrolled,
                                    composite_needed, LoopAlive, queue)
           IN  /\ queue' = r.queue
               /\ phase' = IF r.panicked THEN "Aborted" ELSE phase
               /\ abort_cause' = IF r.panicked THEN "send_event"
                                 ELSE abort_cause
        /\ calls' = [calls EXCEPT !.new_frame_ready = @ + 1]
        /\ UNCHANGED <<target_os, device_size, inner_size, control_flow,
                       window, docs, global_event, frame_ops, render_size>>

Next ==
    \/ EnterLoop
    \/ Dispatch
    \/ ExitLoop
    \/ Deinit
    \/ DropLocals
    \/ WakeUp
    \/ NewFrameReady

Spec == Init /\ [][Next]_vars

(* The event loop delivers a pending event or wake to the callback, and   *)
(* after an exit request finishes with LoopDestroyed; main runs on after  *)
(* run_return.                                                            *)
FairSpec ==
    /\ Spec
    /\ WF_vars(EnterLoop)
    /\ WF_vars(Dispatch \/ ExitLoop)
    /\ WF_vars(ExitLoop)
    /\ WF_vars(Deinit)
    /\ WF_vars(DropLocals)

TypeOK ==
    /\ phase \in {"Initialized", "Running", "Returned", "TornDown", "Dropped",
                  "Aborted"}
    /\ control_flow \in {"Poll", "Wait", "Exit"}
    /\ queue \in 0..MaxQueue

(* ---------------------------------------------------------------------- *)
(* Properties                                                             *)
(* ---------------------------------------------------------------------- *)

(* A step that is one invocation of the callback. *)
IsCallback == calls'.callback = calls.callback + 1

IsExitEvent(e) ==
    /\ e.type = "WindowEvent"
    /\ \/ e.event = "CloseRequested"
       \/ e.event = "KeyboardInput" /\ e.virtual_keycode = "Escape"

IsOtherKey(e) ==
    /\ e.type = "WindowEvent"
    /\ e.event = "KeyboardInput"
    /\ e.virtual_keycode # "Escape"

FrameCalls ==
    <<calls.send_transaction, calls.update, calls.render,
      calls.flush_pipeline_info, calls.swap_buffers>>

(* C1: whatever was handled before and whether or not the window is      *)
(* shown, an invocation of the callback that handles a close request or   *)
(* an escape key leaves the loop's control flow at Exit.                  *)
C1_ExitRequested ==
    [][(IsCallback /\ IsExitEvent(global_event')) => control_flow' = "Exit"]_vars

C1_Witness ==
    /\ IsExitEvent(global_event)
    /\ global_event.event = "KeyboardInput"
    /\ control_flow = "Exit"
    /\ calls.callback >= 2
    /\ ~window.visible

(* C2: every invocation of the callback makes the five frame calls once   *)
(* each, in order, and so renders equal invocations.  Stated for the      *)
(* invocations whose render and swap_buffers results are Ok.              *)
C2_EveryInvocationRenders ==
    /\ [](calls.render = calls.callback)
    /\ [][(IsCallback /\ abort_cause' \notin {"render", "swap_buffers"})
            => frame_ops' = AllFrameOps]_vars

(* C3: a Resumed event shows the window and requests focus; no other step *)
(* changes the window, which therefore stays hidden until the first       *)
(* Resumed.                                                               *)
C3_OnlyResumeShows ==
    /\ [](window.focus_requests = 0 => ~window.visible)
    /\ [][IF IsCallback /\ global_event'.type = "Resumed"
          THEN /\ window'.visible
               /\ window'.focus_requests = window.focus_requests + 1
          ELSE window' = window]_vars

C3_Witness ==
    /\ global_event.type = "Resumed"
    /\ window.visible
    /\ window.focus_requests = 1
    /\ calls.callback >= 2

(* C4: the process aborts only on a failed render or swap_buffers, and a  *)
(* keyboard input other than escape, its key code present or not, leaves  *)
(* the loop running with the frame work done.                             *)
C4_AbortOnlyOnRenderOrSwap ==
    /\ [](phase = "Aborted" => abort_cause \in {"render", "swap_buffers"})
    /\ [][(IsCallback /\ IsOtherKey(global_event')
           /\ abort_cause' \notin {"render", "swap_buffers"})
            => (phase' = "Running" /\ frame_ops' = AllFrameOps)]_vars

IsNewFrameReady == calls'.new_frame_ready = calls.new_frame_ready + 1

IsWakeUp == calls'.wake_up = calls.wake_up + 1

(* C5 as stated: new_frame_ready always queues exactly one wake signal.   *)
C5_AlwaysOneWake ==
    [][IsNewFrameReady => queue' = queue + 1]_vars

(* C5 amended: for every document id and flags, new_frame_ready has the   *)
(* effect of one wake_up, which queues exactly one wake signal on targets *)
(* other than android while the event loop exists, and none otherwise.    *)
C5_SameAsWakeUp ==
    [][(IsNewFrameReady \/ IsWakeUp)
        => /\ queue' = IF target_os # "android" /\ LoopAlive
                       THEN queue + 1 ELSE queue
           /\ phase' = phase]_vars

C5_Witness ==
    /\ calls.new_frame_ready = 1
    /\ calls.wake_up = 0
    /\ target_os = "linux"
    /\ queue = 1

Px(n) == 4 * n

Rect(x0, y0, x1, y1, color) ==
    [clip |-> LayoutRect(<<x0, y0>>, <<x1, y1>>),
     bounds |-> LayoutRect(<<x0, y0>>, <<x1, y1>>),
     color |-> color,
     space_and_clip |-> [pipeline |-> <<0, 0>>, node |-> "root_scroll"]]

Area(r) ==
    (r.bounds.max[1] - r.bounds.min[1]) * (r.bounds.max[2] - r.bounds.min[2])

(* C6: the display list holds exactly the rectangles A (red), B (green),  *)
(* C (blue) at the halves and quarters of the device size; 800x600 gives  *)
(* (0,0)-(400,300), (200,150)-(600,450), (400,300)-(800,600), and a zero  *)
(* size three rectangles of zero area.                                    *)
C6_ThreeRects ==
    LET list == docs[document_id].display_list
        w == device_size[1]
        h == device_size[2]
    IN  /\ Len(list) = 3
        /\ list[1] = Rect(0, 0, Px(w) \div 2, Px(h) \div 2, <<1, 0, 0, 1>>)
        /\ list[2] = Rect(Px(w) \div 4, Px(h) \div 4,
                          (3 * Px(w)) \div 4, (3 * Px(h)) \div 4,
                          <<0, 1, 0, 1>>)
        /\ list[3] = Rect(Px(w) \div 2, Px(h) \div 2, Px(w), Px(h),
                          <<0, 0, 1, 1>>)
        /\ device_size = <<800, 600>> =>
              list = <<Rect(0, 0, Px(400), Px(300), <<1, 0, 0, 1>>),
                       Rect(Px(200), Px(150), Px(600), Px(450), <<0, 1, 0, 1>>),
                       Rect(Px(400), Px(300), Px(800), Px(600), <<0, 0, 1, 1>>)>>
        /\ device_size = <<0, 0>> => \A i \in 1..3 : Area(list[i]) = 0

C6_Witness ==
    /\ device_size = <<800, 600>>
    /\ docs[document_id].display_list[2] =
          Rect(Px(200), Px(150), Px(600), Px(450), <<0, 1, 0, 1>>)

(* C7: one document, pipeline (0,0), epoch 0; display list, root pipeline *)
(* and frame request are set once, by the initial transaction; every      *)
(* transaction of the loop is empty; the render size is the startup       *)
(* device size, also after a resize.                                      *)
C7_OneSceneForever ==
    /\ [](LET d == docs[document_id]
          IN  /\ Len(docs) = 1
              /\ d.pipelines = {<<0, 0>>}
              /\ d.epochs = {0}
              /\ d.n_display_lists = 1
              /\ d.n_root_pipelines = 1
              /\ d.n_generate_frames = 1
              /\ d.n_empty_txns = calls.send_transaction
              /\ d.n_txns = 1 + calls.send_transaction
              /\ render_size \in {<<>>, device_size})
    /\ [][device_size' = device_size]_vars

C7_Witness ==
    /\ calls.render >= 2
    /\ inner_size # device_size
    /\ render_size = device_size
    /\ docs[document_id].n_empty_txns >= 2

(* C8: deinit runs once, only after run_return has returned; no frame     *)
(* call and no transaction follows it, and it has not run while the loop  *)
(* is running.                                                            *)
C8_TeardownLast ==
    /\ [](/\ calls.deinit <= 1
          /\ phase \in {"Initialized", "Running", "Returned"} => calls.deinit = 0
          /\ phase \in {"TornDown", "Dropped"} => calls.deinit = 1)
    /\ [][/\ calls'.deinit # calls.deinit =>
                (phase = "Returned" /\ phase' = "TornDown")
          /\ calls.deinit > 0 =>
                (FrameCalls' = FrameCalls /\ docs' = docs
                 /\ calls'.callback = calls.callback)]_vars

C8_Witness ==
    /\ phase = "Dropped"
    /\ calls.deinit = 1
    /\ calls.swap_buffers >= 2

ReturnedToCaller == phase \in {"Returned", "TornDown", "Dropped"}

====
